---- MODULE Spec2Model ----
(***************************************************************************)
(* Model of the 3D audio visualizer (src/main.js): the play/pause          *)
(* controls, the requestAnimationFrame render loop, the band split and    *)
(* feature extraction of induceChange, the signal modulation and the      *)
(* per-vertex radial displacement of morphMesh.                            *)
(*                                                                         *)
(* JavaScript numbers are modelled as tagged fixed-point values            *)
(* <<"num", v>> standing for v / Scale, <<"NaN", 0>> and <<"inf", s>>      *)
(* (s the sign), so that division by zero yields what it yields in        *)
(* JavaScript.  Divisions and products round down to 1 / Scale.            *)
(*                                                                         *)
(* Every vertex of the icosahedron moves only along the line through the  *)
(* origin and its initial position (normalize, then multiplyScalar), so a *)
(* vertex position is modelled by its signed coordinate along that line:  *)
(* 6 is the initial position, -6 the antipode, 0 the origin.               *)
(***************************************************************************)
EXTENDS Integers, Sequences, FiniteSets, TLC

VARIABLES
    playing,          \* playButton.dataset.playing
    audioState,       \* audioElement: "paused", "playing" or "ended"
    contextState,     \* audioContext.state
    rotation,         \* mesh.rotation, in units of 0.001 rad
    positions,        \* the position attribute, one coordinate per vertex
    normalsValid,     \* the normal attribute matches the position attribute
    bufferLength,     \* analyserNode.frequencyBinCount
    dataArray,        \* the Uint8Array the analyser writes into (as runs)
    bassHalf,         \* induceChange: const bassHalf (as runs)
    trebHalf,         \* induceChange: const trebHalf (as runs)
    bassFeature,      \* the first argument passed to morphMesh
    trebleFeature,    \* the second argument passed to morphMesh
    bassFrequency,    \* morphMesh: const bassFrequency
    trebleFrequency,  \* morphMesh: const trebleFrequency
    pc,               \* position of the running callback; "idle" between tasks
    i,                \* morphMesh: the loop index
    rafPending,       \* a requestAnimationFrame callback is scheduled
    ticks,            \* history: calls of render started
    draws,            \* history: calls of renderer.render
    updated,          \* history: vertices written by the current tick
    idleRun,          \* history: consecutive ticks that returned before morphing
    runStart,         \* history: rotation and positions when that run began
    modArgs,          \* SpecFn: the arguments given to modulateSignal
    modOut            \* SpecFn: the result of modulateSignal

vars == <<playing, audioState, contextState, rotation, positions, normalsValid,
          bufferLength, dataArray, bassHalf, trebHalf, bassFeature,
          trebleFeature, bassFrequency, trebleFrequency, pc, i, rafPending,
          ticks, draws, updated, idleRun, runStart, modArgs, modOut>>

----------------------------------------------------------------------------
(* Bounds of the model *)

NumVertices == 2
MaxTicks == 4
MaxHalf == 2

(* Program constants *)

fftSize == 512
meshRadius == 6
amplitude == 5
bassOutMax == 8
trebleOutMax == 4
rotDeltaX == 3
rotDeltaY == 5
rotDeltaZ == -1

----------------------------------------------------------------------------
(* JavaScript numbers *)

Scale == 1000

Num(v) == <<"num", v>>
NaN == <<"NaN", 0>>
Infinity(s) == <<"inf", s>>

IsNum(x) == x[1] = "num"
IsNaN(x) == x[1] = "NaN"

Abs(v) == IF v < 0 THEN -v ELSE v
Sgn(v) == IF v > 0 THEN 1 ELSE IF v < 0 THEN -1 ELSE 0
Max2(a, b) == IF a >= b THEN a ELSE b
Min2(a, b) == IF a <= b THEN a ELSE b

\* floor(a * Scale / b) for b # 0, computed without leaving 32 bits
FixDiv(a, b) ==
    LET n == IF b < 0 THEN -a ELSE a
        d == Abs(b)
    IN  (n \div d) * Scale + ((n % d) * Scale) \div d

JNeg(a) == <<a[1], -a[2]>>

JAdd(a, b) ==
    IF IsNaN(a) \/ IsNaN(b) THEN NaN
    ELSE IF IsNum(a) /\ IsNum(b) THEN Num(a[2] + b[2])
    ELSE IF IsNum(a) THEN b
    ELSE IF IsNum(b) THEN a
    ELSE IF a[2] = b[2] THEN a ELSE NaN

JSub(a, b) == JAdd(a, JNeg(b))

JMul(a, b) ==
    IF IsNaN(a) \/ IsNaN(b) THEN NaN
    ELSE IF IsNum(a) /\ IsNum(b) THEN Num((a[2] * b[2]) \div Scale)
    ELSE IF Sgn(a[2]) * Sgn(b[2]) = 0 THEN NaN
    ELSE Infinity(Sgn(a[2]) * Sgn(b[2]))

JDiv(a, b) ==
    IF IsNaN(a) \/ IsNaN(b) THEN NaN
    ELSE IF IsNum(a) /\ IsNum(b)
         THEN IF b[2] # 0 THEN Num(FixDiv(a[2], b[2]))
              ELSE IF a[2] = 0 THEN NaN ELSE Infinity(Sgn(a[2]))
    ELSE IF IsNum(b) THEN Infinity(a[2] * (IF b[2] < 0 THEN -1 ELSE 1))
    ELSE IF IsNum(a) THEN Num(0)
    ELSE NaN

\* Math.pow(x, .8) = x^(4/5): the largest r / PowUnit with r^5 <= v^4 * PowUnit,
\* v / PowUnit being x rounded down; defined for 0 <= x < 3
PowUnit == 25

PowRoot(v) ==
    CHOOSE r \in 0..(3 * PowUnit) :
        /\ r * r * r * r * r <= v * v * v * v * PowUnit
        /\ (r + 1) * (r + 1) * (r + 1) * (r + 1) * (r + 1) > v * v * v * v * PowUnit

JPow08(x) ==
    IF IsNaN(x) THEN NaN
    ELSE IF ~IsNum(x) THEN Infinity(1)
    ELSE IF x[2] < 0 THEN NaN
    ELSE Num((PowRoot((x[2] * PowUnit) \div Scale) * Scale) \div PowUnit)

----------------------------------------------------------------------------
(* Uint8Array contents are kept in the state in run-length form, a sequence *)
(* of <<count, value>> runs; the code's operations work on the elements.    *)

RECURSIVE ElementAt(_, _)
ElementAt(runs, j) ==
    IF j <= runs[1][1] THEN runs[1][2] ELSE ElementAt(Tail(runs), j - runs[1][1])

RECURSIVE RunTotal(_)
RunTotal(runs) == IF runs = <<>> THEN 0 ELSE runs[1][1] + RunTotal(Tail(runs))

Elements(runs) == [j \in 1..RunTotal(runs) |-> ElementAt(runs, j)]

JoinRuns(a, b) ==
    IF a = <<>> THEN b
    ELSE IF b = <<>> THEN a
    ELSE IF a[Len(a)][2] = b[1][2]
         THEN SubSeq(a, 1, Len(a) - 1) \o <<<<a[Len(a)][1] + b[1][1], b[1][2]>>>> \o Tail(b)
         ELSE a \o b

RECURSIVE RunsOfRange(_, _, _)
RunsOfRange(array, lo, hi) ==
    IF lo > hi THEN <<>>
    ELSE IF lo = hi THEN <<<<1, array[lo]>>>>
    ELSE JoinRuns(RunsOfRange(array, lo, (lo + hi) \div 2),
                  RunsOfRange(array, (lo + hi) \div 2 + 1, hi))

Runs(array) == RunsOfRange(array, 1, Len(array))

----------------------------------------------------------------------------
(* Array helpers of induceChange *)

\* Uint8Array.prototype.slice(begin, end): relative indices, clamped
RelIndex(idx, len) == IF idx < 0 THEN Max2(len + idx, 0) ELSE Min2(idx, len)

slice(array, begin, end) ==
    LET k == RelIndex(begin, Len(array))
        final == RelIndex(end, Len(array))
    IN  IF final > k THEN SubSeq(array, k + 1, final) ELSE <<>>

\* the loops of getAverage and getMax, evaluated by halves of the index range
RECURSIVE SumRange(_, _, _)
SumRange(array, lo, hi) ==
    IF lo > hi THEN 0
    ELSE IF lo = hi THEN array[lo]
    ELSE SumRange(array, lo, (lo + hi) \div 2) + SumRange(array, (lo + hi) \div 2 + 1, hi)

RECURSIVE MaxRange(_, _, _)
MaxRange(array, lo, hi) ==
    IF lo > hi THEN 0
    ELSE IF lo = hi THEN Max2(array[lo], 0)
    ELSE Max2(MaxRange(array, lo, (lo + hi) \div 2), MaxRange(array, (lo + hi) \div 2 + 1, hi))

getAverage(array) ==
    JDiv(Num(SumRange(array, 1, Len(array)) * Scale), Num(Len(array) * Scale))

getMax(array) == Num(MaxRange(array, 1, Len(array)) * Scale)

BassHalf(array) == slice(array, 0, (Len(array) \div 2) - 1)

\* a split at the exact midpoint
TrebHalfFromMidpoint(array) == slice(array, Len(array) \div 2, Len(array) - 1)

TrebHalf(array) == slice(array, (Len(array) \div 2) - 1, Len(array) - 1)

BassArg(array) == JDiv(getMax(BassHalf(array)), Num(Len(BassHalf(array)) * Scale))

TrebleArg(array) == JDiv(getAverage(TrebHalf(array)), Num(Len(TrebHalf(array)) * Scale))

----------------------------------------------------------------------------
(* morphMesh *)

modulateSignal(signal, min, max, outMin, outMax) ==
    LET fraction == JDiv(JSub(signal, min), JSub(max, min))
        d == JSub(outMax, outMin)
    IN  JAdd(outMin, JMul(fraction, d))

BassFrequency(bassMax) ==
    modulateSignal(JPow08(bassMax), Num(0), Num(Scale), Num(0), Num(bassOutMax * Scale))

TrebleFrequency(trebleAvg) ==
    modulateSignal(trebleAvg, Num(0), Num(Scale), Num(0), Num(trebleOutMax * Scale))

\* Vector3.length() of a vertex on its axis
length(p) == IF IsNaN(p) THEN NaN ELSE IF IsNum(p) THEN Num(Abs(p[2])) ELSE Infinity(1)

\* dividing by the base radius instead of the current length
normalizeByBaseRadius(p) == JDiv(p, Num(meshRadius * Scale))

\* Vector3.normalize(): divideScalar(length() || 1)
normalize(p) ==
    LET l == length(p)
    IN  JDiv(p, IF IsNaN(l) \/ l = Num(0) THEN Num(Scale) ELSE l)

\* the side of the origin the noise is sampled on
Dir(p) == Sgn(normalize(p)[2])

Distance(bassFreq, trebleFreq, noiseVal) ==
    LET n == JMul(JMul(JMul(noiseVal, Num(amplitude * Scale)), trebleFreq), Num(2 * Scale))
    IN  JAdd(JAdd(Num(meshRadius * Scale), bassFreq), n)

NewPosition(p, bassFreq, trebleFreq, noiseVal) ==
    JMul(normalize(p), Distance(bassFreq, trebleFreq, noiseVal))

rotateMesh(r) == [x |-> r.x + rotDeltaX, y |-> r.y + rotDeltaY, z |-> r.z + rotDeltaZ]

----------------------------------------------------------------------------
(* The environment: what the analyser and the noise function may deliver *)

Vertices == 1..NumVertices

BinCount == fftSize \div 2

\* analyser output: one level in the bins of the bass band, one in the rest
TwoLevel(a, b) == [j \in 1..BinCount |-> IF j <= (BinCount \div 2) - 1 THEN a ELSE b]

\* silence, a quiet and a loud treble over a silent bass, and saturation
FrameLevels == {<<0, 0>>, <<0, 32>>, <<0, 255>>, <<255, 255>>}

AnalyserFrames == {TwoLevel(l[1], l[2]) : l \in FrameLevels}

\* createNoise3D(): values in [-1, 1]
NoiseVals == {Num(-Scale), Num(-((6 * Scale) \div 10)), Num(Scale)}

----------------------------------------------------------------------------
(* The program *)

Init ==
    /\ playing = "false"
    /\ audioState = "paused"
    /\ contextState \in {"suspended", "running"}
    /\ rotation = [x |-> 0, y |-> 0, z |-> 0]
    /\ positions = [v \in Vertices |-> Num(meshRadius * Scale)]
    /\ normalsValid = TRUE
    /\ bufferLength = BinCount
    /\ dataArray = Runs([j \in 1..BinCount |-> 0])
    /\ bassHalf = <<>>
    /\ trebHalf = <<>>
    /\ bassFeature = Num(0)
    /\ trebleFeature = Num(0)
    /\ bassFrequency = Num(0)
    /\ trebleFrequency = Num(0)
    /\ pc = "render"
    /\ i = 0
    /\ rafPending = FALSE
    /\ ticks = 0
    /\ draws = 0
    /\ updated = {}
    /\ idleRun = 0
    /\ runStart = [rot |-> rotation, pos |-> positions]
    /\ modArgs = <<>>
    /\ modOut = Num(0)

audioVars == <<playing, audioState, contextState>>
frameVars == <<bufferLength, dataArray, bassHalf, trebHalf, bassFeature, trebleFeature,
               bassFrequency, trebleFrequency>>
fnVars == <<modArgs, modOut>>

\* playButton "click" listener
Click ==
    /\ pc = "idle"
    /\ contextState' = IF contextState = "suspended" THEN "running" ELSE contextState
    /\ IF playing = "false"
       THEN /\ audioState' = "playing"
            /\ playing' = "true"
       ELSE IF playing = "true"
       THEN /\ audioState' = IF audioState = "playing" THEN "paused" ELSE audioState
            /\ playing' = "false"
       ELSE UNCHANGED <<audioState, playing>>
    /\ UNCHANGED <<rotation, positions, normalsValid, frameVars, pc, i, rafPending,
                   ticks, draws, updated, idleRun, runStart, fnVars>>

\* an "ended" listener that leaves the flag alone
EndedFlagKept(flag) == flag

\* the flag after the audio element's "ended" listener
EndedFlag(flag) == "false"

\* playback reaches the end of the file: audioElement "ended" listener
Ended ==
    /\ pc = "idle"
    /\ audioState = "playing"
    /\ audioState' = "ended"
    /\ playing' = EndedFlag(playing)
    /\ UNCHANGED <<contextState, rotation, positions, normalsValid, frameVars, pc, i,
                   rafPending, ticks, draws, updated, idleRun, runStart, fnVars>>

\* the browser runs the scheduled animation frame callback
AnimationFrame ==
    /\ pc = "idle"
    /\ rafPending
    /\ ticks < MaxTicks
    /\ rafPending' = FALSE
    /\ pc' = "render"
    /\ UNCHANGED <<audioVars, rotation, positions, normalsValid, frameVars, i,
                   ticks, draws, updated, idleRun, runStart, fnVars>>

\* render: requestAnimationFrame(render), then the call of induceChange
RenderStart ==
    /\ pc = "render"
    /\ rafPending' = TRUE
    /\ ticks' = ticks + 1
    /\ updated' = {}
    /\ pc' = "induceChange"
    /\ UNCHANGED <<audioVars, rotation, positions, normalsValid, frameVars, i,
                   draws, idleRun, runStart, fnVars>>

\* no early return
ReturnsEarlyNever(flag) == FALSE

\* induceChange: whether it returns after rotateMesh
ReturnsEarly(flag) == flag = "false"

\* induceChange up to the loop of morphMesh
InduceChange ==
    /\ pc = "induceChange"
    /\ rotation' = rotateMesh(rotation)
    /\ IF ReturnsEarly(playing)
       THEN /\ pc' = "draw"
            /\ UNCHANGED <<frameVars, i>>
       ELSE /\ \E frame \in AnalyserFrames :
                  /\ dataArray' = Runs(frame)
                  /\ bassHalf' = Runs(BassHalf(frame))
                  /\ trebHalf' = Runs(TrebHalf(frame))
                  /\ bassFeature' = BassArg(frame)
                  /\ trebleFeature' = TrebleArg(frame)
            /\ bassFrequency' = BassFrequency(bassFeature')
            /\ trebleFrequency' = TrebleFrequency(trebleFeature')
            /\ i' = 0
            /\ pc' = "morph"
            /\ UNCHANGED bufferLength
    /\ idleRun' = IF playing = "false" THEN idleRun + 1 ELSE 0
    /\ UNCHANGED <<audioVars, positions, normalsValid, rafPending, ticks, draws,
                   updated, runStart, fnVars>>

\* a loop that stops one vertex short
LoopStopsShort(idx, count) == idx < count - 1

\* morphMesh: the loop condition
LoopContinues(idx, count) == idx < count

\* morphMesh: one iteration of the loop
MorphVertex ==
    /\ pc = "morph"
    /\ LoopContinues(i, NumVertices)
    /\ \E noiseVal \in NoiseVals :
          positions' = [positions EXCEPT
                           ![i + 1] = NewPosition(positions[i + 1], bassFrequency,
                                                  trebleFrequency, noiseVal)]
    /\ normalsValid' = FALSE
    /\ updated' = updated \cup {i + 1}
    /\ i' = i + 1
    /\ UNCHANGED <<audioVars, rotation, frameVars, pc, rafPending, ticks, draws,
                   idleRun, runStart, fnVars>>

\* morphMesh after the loop: needsUpdate, computeVertexNormals, return
MorphFinish ==
    /\ pc = "morph"
    /\ ~LoopContinues(i, NumVertices)
    /\ normalsValid' = TRUE
    /\ runStart' = IF idleRun = 0 THEN [rot |-> rotation, pos |-> positions] ELSE runStart
    /\ pc' = "draw"
    /\ UNCHANGED <<audioVars, rotation, positions, frameVars, i, rafPending, ticks,
                   draws, updated, idleRun, fnVars>>

\* render: renderer.render(scene, camera), and the callback returns
Draw ==
    /\ pc = "draw"
    /\ draws' = draws + 1
    /\ pc' = "idle"
    /\ UNCHANGED <<audioVars, rotation, positions, normalsValid, frameVars, i,
                   rafPending, ticks, updated, idleRun, runStart, fnVars>>

Next ==
    \/ Click
    \/ Ended
    \/ AnimationFrame
    \/ RenderStart
    \/ InduceChange
    \/ MorphVertex
    \/ MorphFinish
    \/ Draw

Spec == Init /\ [][Next]_vars

----------------------------------------------------------------------------
(* The band split, the features and modulateSignal as functions of their   *)
(* inputs: spectrum sizes 0, 2, .., 2 * MaxHalf with every frame over      *)
(* SampleVals, the analyser's own size, and modulateSignal's input ranges  *)

SampleVals == {0, 128, 255}

FnSizes == {2 * h : h \in 0..MaxHalf}

FnFrames == UNION {[1..n -> SampleVals] : n \in FnSizes} \cup AnalyserFrames

ModSignals == {Num(0), Num(Scale \div 2), Num(Scale), Num(2 * Scale)}
ModInRanges == {<<Num(0), Num(Scale)>>, <<Num(0), Num(0)>>}
ModOutRanges == {<<Num(0), Num(bassOutMax * Scale)>>, <<Num(0), Num(trebleOutMax * Scale)>>}

InitFn ==
    /\ playing = "false"
    /\ audioState = "paused"
    /\ contextState = "suspended"
    /\ rotation = [x |-> 0, y |-> 0, z |-> 0]
    /\ positions = [v \in Vertices |-> Num(meshRadius * Scale)]
    /\ normalsValid = TRUE
    /\ \E frame \in FnFrames :
          /\ dataArray = Runs(frame)
          /\ bufferLength = Len(frame)
    /\ bassHalf = <<>>
    /\ trebHalf = <<>>
    /\ bassFeature = Num(0)
    /\ trebleFeature = Num(0)
    /\ bassFrequency = Num(0)
    /\ trebleFrequency = Num(0)
    /\ pc = "fn"
    /\ i = 0
    /\ rafPending = FALSE
    /\ ticks = 0
    /\ draws = 0
    /\ updated = {}
    /\ idleRun = 0
    /\ runStart = [rot |-> rotation, pos |-> positions]
    /\ \E s \in ModSignals, in \in ModInRanges, out \in ModOutRanges :
          modArgs = <<s, in[1], in[2], out[1], out[2]>>
    /\ modOut = Num(0)

\* induceChange, lines 159 to 166: the bands and the arguments of morphMesh
FnExtract ==
    /\ pc = "fn"
    /\ bassHalf' = Runs(BassHalf(Elements(dataArray)))
    /\ trebHalf' = Runs(TrebHalf(Elements(dataArray)))
    /\ bassFeature' = BassArg(Elements(dataArray))
    /\ trebleFeature' = TrebleArg(Elements(dataArray))
    /\ pc' = "extracted"
    /\ UNCHANGED <<audioVars, rotation, positions, normalsValid, bufferLength, dataArray,
                   bassFrequency, trebleFrequency, i, rafPending, ticks, draws, updated,
                   idleRun, runStart, fnVars>>

\* a call of modulateSignal
FnModulate ==
    /\ pc = "extracted"
    /\ modOut' = modulateSignal(modArgs[1], modArgs[2], modArgs[3], modArgs[4], modArgs[5])
    /\ pc' = "done"
    /\ UNCHANGED <<audioVars, rotation, positions, normalsValid, frameVars, i, rafPending,
                   ticks, draws, updated, idleRun, runStart, modArgs>>

NextFn == FnExtract \/ FnModulate

SpecFn == InitFn /\ [][NextFn]_vars

----------------------------------------------------------------------------
(* Properties *)

RotationAfter(k) == [x |-> k * rotDeltaX, y |-> k * rotDeltaY, z |-> k * rotDeltaZ]

AddRotation(r, k) ==
    [x |-> r.x + k * rotDeltaX, y |-> r.y + k * rotDeltaY, z |-> r.z + k * rotDeltaZ]

InitialPositions == [v \in Vertices |-> Num(meshRadius * Scale)]

ZeroFrame == Runs([j \in 1..BinCount |-> 0])
FullFrame == Runs([j \in 1..BinCount |-> 255])

InRange(x, lo, hi) == IsNum(x) /\ lo <= x[2] /\ x[2] <= hi

\* the modulated signals each analyser frame gives
FrameFreqs ==
    {<<BassFrequency(BassArg(f)), TrebleFrequency(TrebleArg(f))>> : f \in AnalyserFrames}

\* the noise function at one instant, along one vertex's line: by direction
NoiseFields == [{-1, 0, 1} -> NoiseVals]

RadialScales == {Num(2 * Scale), Num(3 * Scale)}

\* C1: every tick advances the rotation by (+0.003, +0.005, -0.001), playing
\* or not; after k consecutive ticks that read the flag "false" the position
\* buffer is the one before those ticks (so are the radial distances) and the
\* rotation has advanced by k times the deltas.
C1_RotationIndependentOfPlayback ==
    /\ pc \in {"morph", "draw", "idle"} => rotation = RotationAfter(ticks)
    /\ pc \in {"draw", "idle"} =>
          /\ rotation = AddRotation(runStart.rot, idleRun)
          /\ idleRun > 0 =>
                /\ positions = runStart.pos
                /\ \A v \in Vertices : length(positions[v]) = length(runStart.pos[v])

C1_Witness ==
    /\ pc = "idle"
    /\ idleRun >= 2
    /\ positions # InitialPositions

\* C2 as stated: for even N >= 2 the split gives bass = frame[0 .. N/2-1) and
\* treble = frame[N/2-1 .. N-1), and the two bands hold N - 2 samples together.
C2_CombinedLengthNMinus2 ==
    (pc # "fn" /\ bufferLength >= 2) =>
        /\ Elements(bassHalf) = SubSeq(Elements(dataArray), 1, (bufferLength \div 2) - 1)
        /\ Elements(trebHalf) = SubSeq(Elements(dataArray), bufferLength \div 2, bufferLength - 1)
        /\ RunTotal(bassHalf) + RunTotal(trebHalf) = bufferLength - 2

\* C2 amended: for even N >= 2 the split gives bass = frame[0 .. N/2-1) and
\* treble = frame[N/2-1 .. N-1); the bands hold N/2 - 1 and N/2 samples, N - 1
\* together (only the last sample is left out).
C2_CombinedLengthNMinus1 ==
    (pc # "fn" /\ bufferLength >= 2) =>
        /\ Elements(bassHalf) = SubSeq(Elements(dataArray), 1, (bufferLength \div 2) - 1)
        /\ Elements(trebHalf) = SubSeq(Elements(dataArray), bufferLength \div 2, bufferLength - 1)
        /\ RunTotal(bassHalf) = (bufferLength \div 2) - 1
        /\ RunTotal(trebHalf) = bufferLength \div 2
        /\ RunTotal(bassHalf) + RunTotal(trebHalf) = bufferLength - 1

C2_Witness ==
    /\ pc = "extracted"
    /\ bufferLength = 4
    /\ Elements(bassHalf) = <<128>>
    /\ Elements(trebHalf) = <<0, 255>>

\* C3: for byte-range frames both arguments passed to morphMesh, max(bass) /
\* bass.length and mean(treble) / treble.length, lie in [0, 1].
C3_FeaturesInUnitInterval ==
    /\ InRange(bassFeature, 0, Scale)
    /\ InRange(trebleFeature, 0, Scale)

\* C4: from the mesh a playing tick starts with, two consecutive playing
\* ticks that see the same frame and the same noise field leave the vertex
\* buffer after the second as after the first.
C4_SameInputSameBuffer ==
    (pc = "induceChange" /\ playing # "false") =>
    \A v \in Vertices, fr \in FrameFreqs, field \in NoiseFields :
        LET first == NewPosition(positions[v], fr[1], fr[2], field[Dir(positions[v])])
            second == NewPosition(first, fr[1], fr[2], field[Dir(first)])
        IN  second = first

\* C5: the new position of a vertex is its direction times (6 + bassFrequency
\* + noise * 5 * trebleFrequency * 2): its radial distance is the magnitude of
\* that distance whatever the previous one was, and a mesh scaled radially by
\* a positive factor is mapped to the same buffer.
C5_DisplacementDoesNotCompound ==
    pc = "idle" =>
    \A v \in Vertices, fr \in FrameFreqs, noiseVal \in NoiseVals :
        LET new == NewPosition(positions[v], fr[1], fr[2], noiseVal)
        IN  /\ Dir(positions[v]) # 0 =>
                  length(new) = length(Distance(fr[1], fr[2], noiseVal))
            /\ \A k \in RadialScales :
                  NewPosition(JMul(positions[v], k), fr[1], fr[2], noiseVal) = new

C5_Witness ==
    /\ pc = "idle"
    /\ \E v \in Vertices :
          /\ IsNum(positions[v])
          /\ positions[v][2] < 0
    /\ \E v \in Vertices :
          /\ IsNum(positions[v])
          /\ positions[v][2] > (meshRadius + bassOutMax) * Scale

\* C6: for byte-range frames bassFrequency stays in [0, 8] and trebleFrequency
\* in [0, 4], and the frame of all 255s gives exactly 8 and 4.
C6_ModulatedSignalsInRange ==
    /\ InRange(bassFrequency, 0, bassOutMax * Scale)
    /\ InRange(trebleFrequency, 0, trebleOutMax * Scale)
    /\ (pc \in {"morph", "draw"} /\ updated # {} /\ dataArray = FullFrame) =>
          /\ bassFrequency = Num(bassOutMax * Scale)
          /\ trebleFrequency = Num(trebleOutMax * Scale)

\* C7: a playing tick fed the all-zero frame has bassFrequency = 0 and
\* trebleFrequency = 0 and leaves every vertex at radial distance 6, whatever
\* the noise and the previous displacement.
C7_ZeroFrameRestoresBaseRadius ==
    (pc = "draw" /\ updated = Vertices /\ dataArray = ZeroFrame) =>
        /\ bassFrequency = Num(0)
        /\ trebleFrequency = Num(0)
        /\ \A v \in Vertices : length(positions[v]) = Num(meshRadius * Scale)

C9_DrawAfterFullMutation ==
    /\ draws = IF pc \in {"idle", "render"} THEN ticks ELSE ticks - 1
    /\ pc = "draw" =>
          /\ rotation = RotationAfter(ticks)
          /\ normalsValid
          /\ updated \in {{}, Vertices}
          /\ playing # "false" => updated = Vertices
    /\ pc \in {"idle", "render"} => normalsValid

C9_Witness ==
    /\ pc = "draw"
    /\ updated = Vertices
    /\ positions # InitialPositions
    /\ draws >= 2

\* C10: the flag is "true" exactly while the audio element, started by a
\* click, has been neither paused nor ended; a tick displaces the vertices
\* if and only if the flag it reads is not "false".
C10_FlagTracksPlayback ==
    /\ playing \in {"true", "false"}
    /\ playing = "true" <=> audioState = "playing"
    /\ pc = "morph" => playing # "false"
    /\ pc = "draw" =>
          /\ updated = Vertices <=> playing # "false"
          /\ updated = {} <=> playing = "false"

C10_Witness ==
    /\ pc = "draw"
    /\ audioState = "ended"
    /\ playing = "false"
    /\ updated = {}
    /\ positions # InitialPositions

====
